---- MODULE Spec2Model ----
(***************************************************************************)
(* The customer service of index.js: three Express handlers (GET, POST,   *)
(* DELETE on /clientes) over one JSON file.  Each handler is a chain of   *)
(* steps separated by its awaits: the request arrives and the read of the *)
(* file is issued; the read completes and the handler runs up to its next *)
(* await (the write) or to its response; the write completes and the      *)
(* handler responds.  The file holds JSON text, modelled as the sequence  *)
(* of its lexemes, so that writing and reading back is a conversion.      *)
(***************************************************************************)
EXTENDS Integers, Sequences, FiniteSets, TLC

\* ------------------------------------------------------------- bounds
NReqs == 2          \* request slots (requests that may be in flight together)
MaxLen == 3         \* longest collection a create may produce
InitMaxLen == 2     \* longest collection of the initial file
InitMaxId == 2      \* largest id of the initial file
MaxId == 3          \* largest id a create may assign
MaxLenConc == 2     \* MaxLen, when requests overlap
MaxIdConc == 2      \* MaxId, when requests overlap

Reqs == 1..NReqs
Nombres == {"Ana", "Leo"}

\* ------------------------------------------------------------- JSON values
\* A lexeme of JSON text; also the representation of a number or string value.
Tok(t, n, s) == [t |-> t, n |-> n, s |-> s]
Num(n) == Tok("num", n, "")
Str(s) == Tok("str", 0, s)
\* The value of a property the object does not have.
Undefined == Tok("undefined", 0, "")
\* A JS object: its properties in insertion order.
Field(k, v) == [k |-> k, v |-> v]

Min(S) == CHOOSE x \in S : \A y \in S : x <= y
Max(S) == CHOOSE x \in S : \A y \in S : x >= y

\* obj.k
Get(obj, k) ==
  LET I == {i \in 1..Len(obj) : obj[i].k = k}
  IN IF I = {} THEN Undefined ELSE obj[Min(I)].v

\* obj.k = v : an existing property keeps its place, a new one goes last.
Set(obj, k, v) ==
  IF \E i \in 1..Len(obj) : obj[i].k = k
  THEN [i \in 1..Len(obj) |-> IF obj[i].k = k THEN Field(k, v) ELSE obj[i]]
  ELSE Append(obj, Field(k, v))

\* !v
Falsy(v) ==
  \/ v.t = "undefined"
  \/ v.t = "str" /\ v.s = ""
  \/ v.t = "num" /\ v.n = 0

\* ------------------------------------------------------------- JSON text
RECURSIVE StringifyMembers(_)
StringifyMembers(obj) ==
  IF obj = <<>> THEN <<>>
  ELSE <<Tok("key", 0, Head(obj).k), Head(obj).v>> \o StringifyMembers(Tail(obj))

RECURSIVE StringifyElements(_)
StringifyElements(arr) ==
  IF arr = <<>> THEN <<>>
  ELSE <<Tok("{", 0, "")>> \o StringifyMembers(Head(arr)) \o <<Tok("}", 0, "")>>
         \o StringifyElements(Tail(arr))

\* JSON.stringify(clientes, null, 2): the lexemes of the text (separators and
\* indentation carry no content and are left out).
JSONstringify(arr) ==
  <<Tok("[", 0, "")>> \o StringifyElements(arr) \o <<Tok("]", 0, "")>>

ParseFail == [ok |-> FALSE, val |-> <<>>, next |-> 0]

RECURSIVE ParseMembers(_, _, _)
ParseMembers(txt, i, obj) ==
  IF i > Len(txt) THEN ParseFail
  ELSE IF txt[i].t = "}" THEN [ok |-> TRUE, val |-> obj, next |-> i + 1]
  ELSE IF txt[i].t = "key" /\ i + 1 <= Len(txt) /\ txt[i + 1].t \in {"num", "str"}
       THEN ParseMembers(txt, i + 2, Set(obj, txt[i].s, txt[i + 1]))
       ELSE ParseFail

RECURSIVE ParseElements(_, _, _)
ParseElements(txt, i, arr) ==
  IF i > Len(txt) THEN ParseFail
  ELSE IF txt[i].t = "]" THEN [ok |-> TRUE, val |-> arr, next |-> i + 1]
  ELSE IF txt[i].t = "{"
       THEN LET m == ParseMembers(txt, i + 1, <<>>)
            IN IF m.ok THEN ParseElements(txt, m.next, Append(arr, m.val))
               ELSE ParseFail
       ELSE ParseFail

\* JSON.parse(data) for the text of an array of objects; ok = FALSE is the
\* SyntaxError it throws (empty, cut short, or with text after the array).
JSONparse(txt) ==
  IF Len(txt) = 0 \/ txt[1].t # "[" THEN ParseFail
  ELSE LET r == ParseElements(txt, 2, <<>>)
       IN IF r.ok /\ r.next = Len(txt) + 1 THEN r ELSE ParseFail

\* ------------------------------------------------------------- parseInt
Digits == <<"0", "1", "2", "3", "4", "5", "6", "7", "8", "9">>
IsDigit(c) == \E d \in 1..10 : Digits[d] = c
DigitVal(c) == (CHOOSE d \in 1..10 : Digits[d] = c) - 1

NaN == [nan |-> TRUE, n |-> 0]
Int32(n) == [nan |-> FALSE, n |-> n]

RECURSIVE ParseDigits(_, _)
ParseDigits(str, acc) ==
  IF str = <<>> \/ ~IsDigit(Head(str)) THEN acc
  ELSE ParseDigits(Tail(str), 10 * acc + DigitVal(Head(str)))

\* parseInt(req.params.id): the leading digits of the string, after an optional
\* sign; NaN when there is none.  Text after the digits is ignored.
parseInt(str) ==
  LET neg == str # <<>> /\ Head(str) = "-"
      body == IF str # <<>> /\ Head(str) \in {"-", "+"} THEN Tail(str) ELSE str
  IN IF body = <<>> \/ ~IsDigit(Head(body)) THEN NaN
     ELSE Int32(IF neg THEN 0 - ParseDigits(body, 0) ELSE ParseDigits(body, 0))

\* ------------------------------------------------------------- inputs
\* Request bodies as express.json() hands them over.
Bodies ==
  { <<>>,
    <<Field("nombre", Str(""))>>,
    <<Field("nombre", Str("Ana"))>>,
    <<Field("id", Num(7)), Field("nombre", Str("Ana"))>> }

\* Those tried when requests overlap.
BodiesConc == { <<Field("nombre", Str("Ana"))>> }

\* Values of the :id path parameter.
Params == { <<"1">>, <<"2">>, <<"3", "x">>, <<"x">> }
ParamsConc == { <<"1">>, <<"2">> }

\* Records of the initial file: {id, nombre}.
InitClientes ==
  { <<Field("id", Num(i)), Field("nombre", Str(n))>> : i \in 1..InitMaxId, n \in Nombres }
InitColecciones ==
  UNION { [1..k -> InitClientes] : k \in 0..InitMaxLen }

\* ------------------------------------------------------------- state
VARIABLES
  modo,      \* "seq": a request arrives only when none is in flight; "conc": any time
  archivo,   \* ./data/clientes.json: whether it exists, and its text
  pc,        \* per request: "idle", "load" (readFile pending), "save" (writeFile pending), "done"
  req,       \* per request: method, body, and the parsed :id
  clientes,  \* per request: the handler's local array
  item,      \* per request: nuevoCliente (POST) or eliminado[0] (DELETE)
  res,       \* per request: the response sent
  h,         \* per request, history: the file as it read it, which step threw, reads, writes,
             \* responses, and hiIssued as it was when the response was sent
  replay,    \* history: the initial collection with the completed requests replayed on it
  hiIssued,  \* history: largest id a successful create was answered with
  ultimo     \* history: the request whose write was the last to complete (0: none observed)

vars == <<modo, archivo, pc, req, clientes, item, res, h, replay, hiIssued, ultimo>>

File(exists, text) == [exists |-> exists, text |-> text]

NoRes == [status |-> 0, kind |-> "none", msg |-> "", cliente |-> <<>>, lista |-> <<>>]
\* res.status(500).json({ error: msg })
ResError(status, msg) ==
  [status |-> status, kind |-> "error", msg |-> msg, cliente |-> <<>>, lista |-> <<>>]
\* res.status(404).json({ mensaje: msg })
ResMensaje(status, msg) ==
  [status |-> status, kind |-> "mensaje", msg |-> msg, cliente |-> <<>>, lista |-> <<>>]
\* res.status(s).json(cliente)
ResCliente(status, c) ==
  [status |-> status, kind |-> "cliente", msg |-> "", cliente |-> c, lista |-> <<>>]
\* res.json(clientes)
ResLista(status, l) ==
  [status |-> status, kind |-> "lista", msg |-> "", cliente |-> <<>>, lista |-> l]

\* Variant: every handler answers with the list handler's message.
CatchResCopiado(method) == ResError(500, "Error al leer los datos.")

\* The catch block of each handler.
CatchRes(method) ==
  CASE method = "GET" -> ResError(500, "Error al leer los datos.")
    [] method = "POST" -> ResError(500, "Error al guardar el cliente.")
    [] method = "DELETE" -> ResError(500, "Error al eliminar el cliente.")

\* ------------------------------------------------------------- storage accessor
\* Variant: a missing file reads as an empty collection.
leerClientesVacio ==
  IF archivo.exists THEN JSONparse(archivo.text) ELSE [ok |-> TRUE, val |-> <<>>, next |-> 0]

\* leerClientes: readFile throws when the file is missing, JSON.parse when the
\* text is not JSON.
leerClientes ==
  IF archivo.exists THEN JSONparse(archivo.text) ELSE ParseFail

\* Where a failed write may stop: before the first lexeme, or before the last.
Cuts(txt) == { SubSeq(txt, 1, k) : k \in {0, Len(txt) - 1} }

\* Variant: the text is appended to the file instead of replacing it.
guardarClientesAppend(arr) ==
  {[ok |-> TRUE, archivo |-> File(TRUE, archivo.text \o JSONstringify(arr))],
   [ok |-> FALSE, archivo |-> archivo]}

\* guardarClientes: the outcomes of writeFile.  It truncates the file and writes
\* the text; it either completes, or throws with the file untouched (the open
\* failed) or holding only the start of the text (the write failed).  With
\* overlapping requests every write is taken as atomic: all or nothing.
guardarClientes(arr) ==
  LET txt == JSONstringify(arr)
  IN {[ok |-> TRUE, archivo |-> File(TRUE, txt)]}
       \cup {[ok |-> FALSE, archivo |-> archivo]}
       \cup (IF modo = "seq" THEN {[ok |-> FALSE, archivo |-> File(TRUE, p)] : p \in Cuts(txt)}
             ELSE {})

\* ------------------------------------------------------------- collection mutator
\* c.id of a stored record (a number in every record of the file).
IdOf(c) == Get(c, "id").n

\* Variant: only a missing nombre is refused (nombre === undefined).
FaltaNombreUndefined(nuevoCliente) == Get(nuevoCliente, "nombre").t = "undefined"

\* !nuevoCliente.nombre
FaltaNombre(nuevoCliente) == Falsy(Get(nuevoCliente, "nombre"))

\* Variant: the id is the new length of the array (clientes.length + 1).
NextIdLength(arr) == Len(arr) + 1

\* clientes.length > 0 ? clientes.at(-1).id + 1 : 1
NextId(arr) == IF Len(arr) > 0 THEN IdOf(arr[Len(arr)]) + 1 ELSE 1

\* Variant: the last match instead of the first (findLastIndex).
FindLastIndex(arr, id) ==
  LET I == {i \in 1..Len(arr) : Get(arr[i], "id").t = "num" /\ ~id.nan /\ IdOf(arr[i]) = id.n}
  IN IF I = {} THEN 0 ELSE Max(I)

\* clientes.findIndex(c => c.id === id), 1-based; 0 stands for -1.
FindIndex(arr, id) ==
  LET I == {i \in 1..Len(arr) : Get(arr[i], "id").t = "num" /\ ~id.nan /\ IdOf(arr[i]) = id.n}
  IN IF I = {} THEN 0 ELSE Min(I)

\* Variant: splice(index + 1, 1), an index off by one.
SpliceOffByOne(arr, index) ==
  SubSeq(arr, 1, index) \o SubSeq(arr, index + 2, Len(arr))

\* clientes.splice(index, 1): the array afterwards.
Splice(arr, index) ==
  SubSeq(arr, 1, index - 1) \o SubSeq(arr, index + 1, Len(arr))

\* ------------------------------------------------------------- replay (history)
\* The pure list operations the file is compared with: a create with a name
\* appends the body carrying the id after the last one, a delete drops the
\* first record with the id, anything else changes nothing.
RefTieneNombre(body) ==
  \E i \in 1..Len(body) :
    /\ body[i].k = "nombre"
    /\ \/ body[i].v.t = "str" /\ body[i].v.s # ""
       \/ body[i].v.t = "num" /\ body[i].v.n # 0

RefConId(body, n) ==
  IF \E i \in 1..Len(body) : body[i].k = "id"
  THEN [i \in 1..Len(body) |-> IF body[i].k = "id" THEN Field("id", Num(n)) ELSE body[i]]
  ELSE body \o <<Field("id", Num(n))>>

RefSiguienteId(list) ==
  IF list = <<>> THEN 1 ELSE Get(list[Len(list)], "id").n + 1

RefMatches(list, id) ==
  {i \in 1..Len(list) : ~id.nan /\ Get(list[i], "id") = Num(id.n)}

RefQuitar(list, id) ==
  LET m == Min(RefMatches(list, id))
  IN [j \in 1..(Len(list) - 1) |-> IF j < m THEN list[j] ELSE list[j + 1]]

ReplayOp(list, rq) ==
  CASE rq.method = "POST" /\ RefTieneNombre(rq.body) ->
         Append(list, RefConId(rq.body, RefSiguienteId(list)))
    [] rq.method = "DELETE" /\ RefMatches(list, rq.id) # {} -> RefQuitar(list, rq.id)
    [] OTHER -> list

\* ------------------------------------------------------------- requests
Idle(r) == pc[r] \in {"idle", "done"}
NoneInFlight == \A q \in Reqs : Idle(q)

\* The bounds in force: creates that would exceed them are not tried.
LenCap == IF modo = "seq" THEN MaxLen ELSE MaxLenConc
IdCap == IF modo = "seq" THEN MaxId ELSE MaxIdConc

\* The history of a request at its arrival.
H0 == [before |-> File(FALSE, <<>>), ioerr |-> "none", reads |-> 0, writes |-> 0, sent |-> 0,
       hiAntes |-> 0]

Req0 == [method |-> "GET", body |-> <<>>, id |-> NaN]

\* A request arrives and its handler runs up to the first await: readFile is
\* issued.  It takes the first free slot; the responses of the requests that
\* ended before it are no longer observed.
Arrive(r, method, body, id) ==
  /\ Idle(r) /\ \A q \in Reqs : q < r => ~Idle(q)
  /\ modo = "seq" => NoneInFlight
  /\ pc' = [q \in Reqs |-> IF q = r THEN "load" ELSE IF Idle(q) THEN "idle" ELSE pc[q]]
  /\ req' = [q \in Reqs |-> IF q = r THEN [method |-> method, body |-> body, id |-> id]
                            ELSE IF Idle(q) THEN Req0 ELSE req[q]]
  /\ clientes' = [q \in Reqs |-> IF q = r \/ Idle(q) THEN <<>> ELSE clientes[q]]
  /\ item' = [q \in Reqs |-> IF q = r \/ Idle(q) THEN <<>> ELSE item[q]]
  /\ res' = [q \in Reqs |-> IF q = r \/ Idle(q) THEN NoRes ELSE res[q]]
  /\ h' = [q \in Reqs |-> IF q = r \/ Idle(q) THEN H0 ELSE h[q]]
  /\ ultimo' = IF ultimo = r \/ (ultimo \in Reqs /\ Idle(ultimo)) THEN 0 ELSE ultimo
  /\ UNCHANGED <<modo, archivo, replay, hiIssued>>

\* The handler sends its response and ends.
Respond(r, rs, hr) ==
  /\ pc' = [pc EXCEPT ![r] = "done"]
  /\ res' = [res EXCEPT ![r] = rs]
  /\ h' = [h EXCEPT ![r] = [hr EXCEPT !.sent = @ + 1, !.hiAntes = hiIssued]]
  /\ replay' = IF modo = "seq" /\ rs.status # 500 THEN ReplayOp(replay, req[r]) ELSE replay
  /\ hiIssued' = IF modo = "seq" /\ rs.status = 201 /\ IdOf(rs.cliente) > hiIssued
                 THEN IdOf(rs.cliente) ELSE hiIssued
  /\ ultimo' = IF hr.writes > h[r].writes /\ hr.ioerr = "none" THEN r ELSE ultimo

\* The handler reaches `await guardarClientes(clientes)`: writeFile is issued.
AwaitGuardar(r, arr, it, hr) ==
  /\ pc' = [pc EXCEPT ![r] = "save"]
  /\ clientes' = [clientes EXCEPT ![r] = arr]
  /\ item' = [item EXCEPT ![r] = it]
  /\ h' = [h EXCEPT ![r] = hr]
  /\ UNCHANGED <<res, replay, hiIssued, ultimo>>

Leido(r, l) ==
  [h[r] EXCEPT !.before = archivo, !.reads = @ + 1, !.ioerr = IF l.ok THEN "none" ELSE "load"]

\* GET /clientes
GetArrive(r) == Arrive(r, "GET", <<>>, NaN)

GetLeer(r) ==
  /\ pc[r] = "load" /\ req[r].method = "GET"
  /\ LET l == leerClientes
     IN /\ IF l.ok
           THEN Respond(r, ResLista(200, l.val), Leido(r, l))
           ELSE Respond(r, CatchRes("GET"), Leido(r, l))
        /\ clientes' = [clientes EXCEPT ![r] = l.val]
  /\ UNCHANGED <<modo, archivo, req, item>>

\* POST /clientes
PostArrive(r) ==
  /\ Idle(r)
  /\ LET l == leerClientes
         cabe == l.ok => (Len(l.val) < LenCap /\ NextId(l.val) <= IdCap)
     IN \E body \in (IF modo = "seq" THEN Bodies ELSE BodiesConc) :
          /\ FaltaNombre(body) \/ cabe
          /\ Arrive(r, "POST", body, NaN)

PostLeer(r) ==
  /\ pc[r] = "load" /\ req[r].method = "POST"
  /\ LET l == leerClientes
         nuevoCliente == req[r].body
         conId == Set(nuevoCliente, "id", Num(NextId(l.val)))
     IN /\ (l.ok /\ ~FaltaNombre(nuevoCliente))
             => (Len(l.val) < LenCap /\ NextId(l.val) <= IdCap)
        /\ IF ~l.ok
           THEN /\ Respond(r, CatchRes("POST"), Leido(r, l))
                /\ UNCHANGED <<clientes, item>>
           ELSE IF FaltaNombre(nuevoCliente)
           THEN /\ Respond(r, ResError(400, "Falta el campo 'nombre'"), Leido(r, l))
                /\ clientes' = [clientes EXCEPT ![r] = l.val]
                /\ item' = [item EXCEPT ![r] = nuevoCliente]
           ELSE AwaitGuardar(r, Append(l.val, conId), conId, Leido(r, l))
  /\ UNCHANGED <<modo, archivo, req>>

Escrito(r, o) ==
  [h[r] EXCEPT !.writes = @ + 1, !.ioerr = IF o.ok THEN "none" ELSE "save"]

PostGuardar(r) ==
  /\ pc[r] = "save" /\ req[r].method = "POST"
  /\ \E o \in guardarClientes(clientes[r]) :
       /\ archivo' = o.archivo
       /\ IF o.ok
          THEN Respond(r, ResCliente(201, item[r]), Escrito(r, o))
          ELSE Respond(r, CatchRes("POST"), Escrito(r, o))
  /\ UNCHANGED <<modo, req, clientes, item>>

\* DELETE /clientes/:id
DeleteArrive(r) ==
  \E p \in (IF modo = "seq" THEN Params ELSE ParamsConc) :
    Arrive(r, "DELETE", <<>>, parseInt(p))

DeleteLeer(r) ==
  /\ pc[r] = "load" /\ req[r].method = "DELETE"
  /\ LET l == leerClientes
         index == FindIndex(l.val, req[r].id)
     IN IF ~l.ok
        THEN /\ Respond(r, CatchRes("DELETE"), Leido(r, l))
             /\ UNCHANGED <<clientes, item>>
        ELSE IF index # 0
        THEN AwaitGuardar(r, Splice(l.val, index), l.val[index], Leido(r, l))
        ELSE /\ Respond(r, ResMensaje(404, "Cliente no encontrado"), Leido(r, l))
             /\ clientes' = [clientes EXCEPT ![r] = l.val]
             /\ UNCHANGED item
  /\ UNCHANGED <<modo, archivo, req>>

DeleteGuardar(r) ==
  /\ pc[r] = "save" /\ req[r].method = "DELETE"
  /\ \E o \in guardarClientes(clientes[r]) :
       /\ archivo' = o.archivo
       /\ IF o.ok
          THEN Respond(r, ResCliente(200, item[r]), Escrito(r, o))
          ELSE Respond(r, CatchRes("DELETE"), Escrito(r, o))
  /\ UNCHANGED <<modo, req, clientes, item>>

\* ------------------------------------------------------------- specifications
InitFiles ==
  {File(FALSE, <<>>)} \cup {File(TRUE, JSONstringify(c)) : c \in InitColecciones}

InitWith(m, f) ==
  /\ modo = m
  /\ archivo = f
  /\ pc = [r \in Reqs |-> "idle"]
  /\ req = [r \in Reqs |-> Req0]
  /\ clientes = [r \in Reqs |-> <<>>]
  /\ item = [r \in Reqs |-> <<>>]
  /\ res = [r \in Reqs |-> NoRes]
  /\ h = [r \in Reqs |-> H0]
  /\ replay = IF f.exists /\ JSONparse(f.text).ok THEN JSONparse(f.text).val ELSE <<>>
  /\ hiIssued = 0
  /\ ultimo = 0

\* Requests one after the other, over any initial file.
Init == \E f \in InitFiles : InitWith("seq", f)

\* Requests one after the other, over an initially empty collection.
InitEmpty == InitWith("seq", File(TRUE, JSONstringify(<<>>)))

\* Overlapping requests, over an initially empty collection.
InitConc == InitWith("conc", File(TRUE, JSONstringify(<<>>)))

Next ==
  \E r \in Reqs :
    \/ GetArrive(r)
    \/ GetLeer(r)
    \/ PostArrive(r)
    \/ PostLeer(r)
    \/ PostGuardar(r)
    \/ DeleteArrive(r)
    \/ DeleteLeer(r)
    \/ DeleteGuardar(r)

Spec == Init /\ [][Next]_vars
SpecEmpty == InitEmpty /\ [][Next]_vars
SpecConc == InitConc /\ [][Next]_vars

\* ------------------------------------------------------------- properties
Done(r) == pc[r] = "done"
\* The collection request r loaded, when the file was readable.
LeyoBien(r) == h[r].before.exists /\ JSONparse(h[r].before.text).ok
Cargada(r) == JSONparse(h[r].before.text).val
\* The collection on disk now.
EnDisco == leerClientes.val

Ids(list) == {Get(list[i], "id").n : i \in 1..Len(list)}
Distintos(list) ==
  \A i, j \in 1..Len(list) : i # j => Get(list[i], "id") # Get(list[j], "id")
Crecientes(list) ==
  /\ \A i \in 1..Len(list) : Get(list[i], "id").t = "num" /\ Get(list[i], "id").n > 0
  /\ \A i, j \in 1..Len(list) : i < j => Get(list[i], "id").n < Get(list[j], "id").n

\* A create with a name whose load and save both succeeded.
CreateOk(r) ==
  /\ Done(r) /\ req[r].method = "POST" /\ RefTieneNombre(req[r].body)
  /\ LeyoBien(r) /\ h[r].ioerr = "none"

CreateAssigns(r, n) ==
  /\ res[r].status = 201 /\ res[r].kind = "cliente"
  /\ res[r].cliente = RefConId(req[r].body, n)
  /\ leerClientes.ok
  /\ EnDisco = Cargada(r) \o <<RefConId(req[r].body, n)>>

\* C1, as stated: a create without overlap assigns (maximum id of the loaded
\* collection) + 1, or 1 when it is empty, leaves the file holding the
\* collection with that customer appended, and answers 201 with it.
C1_MaxPlusOne ==
  modo = "seq" =>
    \A r \in Reqs : CreateOk(r) =>
      CreateAssigns(r, IF Cargada(r) = <<>> THEN 1 ELSE Max(Ids(Cargada(r))) + 1)

\* C1, amended: the id assigned is (id of the LAST record of the loaded
\* collection) + 1, or 1 when it is empty; the rest as stated.
C1_LastPlusOne ==
  modo = "seq" =>
    \A r \in Reqs : CreateOk(r) =>
      CreateAssigns(r, IF Cargada(r) = <<>> THEN 1
                       ELSE Get(Cargada(r)[Len(Cargada(r))], "id").n + 1)

\* C1 witness: a create answered 201 over a collection whose last id is not its maximum.
C1_Witness ==
  \E r \in Reqs :
    /\ modo = "seq" /\ CreateOk(r) /\ res[r].status = 201
    /\ Len(Cargada(r)) >= 2
    /\ Get(Cargada(r)[Len(Cargada(r))], "id").n < Max(Ids(Cargada(r)))

\* C2, as stated: without overlap, a request that completes over a collection
\* whose ids are pairwise distinct leaves the ids pairwise distinct.
C2_DistinctKept ==
  modo = "seq" =>
    \A r \in Reqs : (Done(r) /\ LeyoBien(r) /\ Distintos(Cargada(r)) /\ leerClientes.ok)
      => Distintos(EnDisco)

\* C2, amended: without overlap, a request that completes over a collection
\* whose ids are positive and strictly increasing in array order leaves them
\* so, hence pairwise distinct.
C2_IncreasingKept ==
  modo = "seq" =>
    \A r \in Reqs : (Done(r) /\ LeyoBien(r) /\ Crecientes(Cargada(r)) /\ leerClientes.ok)
      => (Crecientes(EnDisco) /\ Distintos(EnDisco))

\* C2 witness: a create completed over a non-empty increasing collection.
C2_Witness ==
  \E r \in Reqs :
    /\ modo = "seq" /\ CreateOk(r) /\ res[r].status = 201
    /\ Len(Cargada(r)) >= 2 /\ Crecientes(Cargada(r))
    /\ Crecientes(EnDisco)

\* C3: without overlap, whenever no request is in flight and the file can be
\* read, reading it back yields the initial collection with the completed
\* requests replayed on it as pure list operations.
C3_RoundTrip ==
  (modo = "seq" /\ NoneInFlight /\ leerClientes.ok) => EnDisco = replay

\* C3 witness: a delete has just removed a record from a file that also holds
\* a record some create appended (its id comes after its nombre).
C3_Witness ==
  \E r \in Reqs :
    /\ modo = "seq" /\ Done(r) /\ req[r].method = "DELETE" /\ res[r].status = 200
    /\ leerClientes.ok /\ EnDisco = replay
    /\ \E i \in 1..Len(EnDisco) : EnDisco[i][1].k = "nombre"
    /\ Len(EnDisco) >= 2

\* A delete of an id the loaded collection holds, whose save succeeded.
DeleteOk(r) ==
  /\ Done(r) /\ req[r].method = "DELETE" /\ LeyoBien(r) /\ h[r].ioerr = "none"
  /\ RefMatches(Cargada(r), req[r].id) # {}

\* C4: a delete without overlap of an id that occurs in the collection leaves
\* the file holding the collection without the first record with that id, the
\* others in their order, and answers 200 with the removed record.
C4_DeleteFirstMatch ==
  modo = "seq" =>
    \A r \in Reqs : DeleteOk(r) =>
      /\ res[r].status = 200 /\ res[r].kind = "cliente"
      /\ res[r].cliente = Cargada(r)[Min(RefMatches(Cargada(r), req[r].id))]
      /\ leerClientes.ok
      /\ EnDisco = RefQuitar(Cargada(r), req[r].id)
      /\ Len(EnDisco) = Len(Cargada(r)) - 1

\* C4 witness: a delete answered 200 where two different records carried the id.
C4_Witness ==
  \E r \in Reqs :
    /\ modo = "seq" /\ DeleteOk(r) /\ res[r].status = 200
    /\ \E i, j \in RefMatches(Cargada(r), req[r].id) : Cargada(r)[i] # Cargada(r)[j]

Intacto(r) == archivo = h[r].before /\ h[r].writes = 0

\* C5: a rejected request never writes the file: over a readable file a create
\* without a (non-empty) nombre is answered 400 and a delete of an id no record
\* has is answered 404, and after either the file is what it was.
C5_RejectedLeavesFile ==
  modo = "seq" =>
    \A r \in Reqs : Done(r) =>
      /\ (req[r].method = "POST" /\ LeyoBien(r) /\ ~RefTieneNombre(req[r].body))
           => /\ res[r] = ResError(400, "Falta el campo 'nombre'")
              /\ Intacto(r)
      /\ (req[r].method = "DELETE" /\ LeyoBien(r) /\ RefMatches(Cargada(r), req[r].id) = {})
           => /\ res[r] = ResMensaje(404, "Cliente no encontrado")
              /\ Intacto(r)
      /\ res[r].status \in {400, 404} => Intacto(r)

\* C5 witness: a create with an empty nombre answered 400 over a non-empty collection.
C5_Witness ==
  \E r \in Reqs :
    /\ modo = "seq" /\ Done(r) /\ req[r].method = "POST"
    /\ Get(req[r].body, "nombre") = Str("")
    /\ LeyoBien(r) /\ Cargada(r) # <<>>
    /\ res[r].status = 400

\* C5, second case reached: a delete answered 404 over a non-empty collection.
C5_Witness404 ==
  \E r \in Reqs :
    /\ modo = "seq" /\ Done(r) /\ req[r].method = "DELETE"
    /\ LeyoBien(r) /\ Cargada(r) # <<>>
    /\ res[r].status = 404

GenericError(method) ==
  CASE method = "GET" -> "Error al leer los datos."
    [] method = "POST" -> "Error al guardar el cliente."
    [] method = "DELETE" -> "Error al eliminar el cliente."

FailedOnce(r) ==
  /\ res[r].status = 500 /\ res[r].kind = "error" /\ res[r].msg = GenericError(req[r].method)
  /\ h[r].sent = 1
  /\ h[r].reads = 1
  /\ h[r].writes = (IF h[r].ioerr = "save" THEN 1 ELSE 0)

\* C6, as stated: when the load or the save of a request fails, it ends with
\* one response 500 with the handler's generic error, nothing is retried, and
\* the file holds what it held before the request.
C6_FailureKeepsFile ==
  modo = "seq" =>
    \A r \in Reqs : (Done(r) /\ h[r].ioerr # "none") =>
      /\ FailedOnce(r)
      /\ archivo = h[r].before

\* C6, amended: the response and the absence of retries as stated; after a
\* failed load the file is untouched; after a failed save it is either
\* untouched or holds a cut of the new text that no longer parses.
C6_FailureAmended ==
  modo = "seq" =>
    \A r \in Reqs : (Done(r) /\ h[r].ioerr # "none") =>
      /\ FailedOnce(r)
      /\ h[r].ioerr = "load" => archivo = h[r].before
      /\ h[r].ioerr = "save" => (archivo = h[r].before \/ ~leerClientes.ok)

\* C6 witness: a failed save that left the file cut.
C6_Witness ==
  \E r \in Reqs :
    /\ modo = "seq" /\ Done(r) /\ h[r].ioerr = "save" /\ res[r].status = 500
    /\ archivo # h[r].before /\ ~leerClientes.ok

\* C7, as stated: from an empty collection and without overlap, each id a
\* create is answered with is positive and greater than every id an earlier
\* create was answered with.
C7_NeverReissued ==
  modo = "seq" =>
    \A r \in Reqs : (CreateOk(r) /\ res[r].status = 201) =>
      (IdOf(res[r].cliente) > 0 /\ IdOf(res[r].cliente) > h[r].hiAntes)

\* C7, amended: each id a create is answered with is positive and greater
\* than every id of the collection it was added to; an id whose record was
\* deleted may be assigned again.
C7_AboveCollection ==
  modo = "seq" =>
    \A r \in Reqs : (CreateOk(r) /\ res[r].status = 201) =>
      /\ IdOf(res[r].cliente) > 0
      /\ \A i \in 1..Len(Cargada(r)) : IdOf(res[r].cliente) > Get(Cargada(r)[i], "id").n

\* C7 witness: a create answered with an id below one answered before, over a
\* non-empty collection.
C7_Witness ==
  \E r \in Reqs :
    /\ modo = "seq" /\ CreateOk(r) /\ res[r].status = 201
    /\ Cargada(r) # <<>>
    /\ IdOf(res[r].cliente) < hiIssued

Mutating(r) ==
  /\ Done(r) /\ req[r].method \in {"POST", "DELETE"}
  /\ res[r].status \in {200, 201} /\ h[r].writes = 1 /\ h[r].ioerr = "none"

\* Two requests that loaded the same file and were both answered with success,
\* b being the one that saved last.
Overlapped(a, b) ==
  /\ a # b /\ Mutating(a) /\ Mutating(b)
  /\ h[a].before = h[b].before /\ LeyoBien(a)
  /\ ultimo = b

\* C8: when two overlapping creates or deletes loaded the same snapshot and
\* both were answered with success, the file holds the snapshot with only the
\* operation of the one that saved last.
C8_LostUpdate ==
  modo = "conc" =>
    \A a, b \in Reqs : Overlapped(a, b) =>
      /\ leerClientes.ok
      /\ EnDisco = ReplayOp(Cargada(b), req[b])

Lost(a, b) ==
  /\ Overlapped(a, b)
  /\ leerClientes.ok
  /\ EnDisco # ReplayOp(ReplayOp(Cargada(a), req[a]), req[b])
  /\ EnDisco # ReplayOp(ReplayOp(Cargada(a), req[b]), req[a])

\* C8 witness: such a pair, a create and a delete, where the file differs from
\* both orders of applying the two operations: the create's record is gone.
C8_Witness ==
  \E a, b \in Reqs :
    /\ modo = "conc" /\ Lost(a, b)
    /\ req[a].method = "POST" /\ req[b].method = "DELETE"

\* C8, the other pairs reached: two creates, and two deletes.
C8_WitnessCreateCreate ==
  \E a, b \in Reqs :
    modo = "conc" /\ Lost(a, b) /\ req[a].method = "POST" /\ req[b].method = "POST"

C8_WitnessDeleteDelete ==
  \E a, b \in Reqs :
    modo = "conc" /\ Lost(a, b) /\ req[a].method = "DELETE" /\ req[b].method = "DELETE"

\* C9, as stated: the name is validated before the file is loaded, so a create
\* without nombre is answered 400 whatever the load does.
C9_ValidateFirst ==
  modo = "seq" =>
    \A r \in Reqs : (Done(r) /\ req[r].method = "POST" /\ ~RefTieneNombre(req[r].body))
      => res[r].status = 400

\* C9, amended: the file is loaded before the name is validated (load, validate,
\* mutate, save, respond): a create without nombre is answered 400 when the
\* load succeeds and 500 when it fails, and never writes.
C9_LoadFirst ==
  modo = "seq" =>
    \A r \in Reqs : (Done(r) /\ req[r].method = "POST" /\ ~RefTieneNombre(req[r].body))
      => /\ h[r].reads = 1 /\ h[r].writes = 0
         /\ LeyoBien(r) => res[r].status = 400
         /\ ~LeyoBien(r) => (res[r].status = 500 /\ res[r].msg = "Error al guardar el cliente.")

\* C9 witness: a create without nombre answered 500 because the file is missing.
C9_Witness ==
  \E r \in Reqs :
    /\ modo = "seq" /\ Done(r) /\ req[r].method = "POST" /\ req[r].body = <<>>
    /\ ~h[r].before.exists /\ res[r].status = 500

\* C10: from an empty file, with atomic reads and writes, under any
\* interleaving the ids on disk are positive and strictly increasing.
C10_IncreasingOnDisk ==
  modo = "conc" => LET l == leerClientes IN l.ok /\ Crecientes(l.val)

\* C10 witness: two overlapping creates both answered 201 with the same id,
\* over a non-empty collection.
C10_Witness ==
  \E a, b \in Reqs :
    /\ modo = "conc" /\ a # b /\ Mutating(a) /\ Mutating(b)
    /\ req[a].method = "POST" /\ req[b].method = "POST"
    /\ h[a].before = h[b].before /\ Cargada(a) # <<>>
    /\ IdOf(res[a].cliente) = IdOf(res[b].cliente)
    /\ Len(EnDisco) >= 2

====
